---- MODULE Spec2Model ----
(***************************************************************************)
(* Model of src/gpio.rs: the pio! macro's typestate GPIO API for the three *)
(* PIO ports of the ATSAM4S16B (PIOA, PIOB, PIOC).                         *)
(*                                                                         *)
(* A 32-bit register word is modelled as the set of the positions of its   *)
(* 1 bits (a subset of 0..31): & is intersection, | is union, ! is the     *)
(* complement in 0..31 and 1 << i is {i}.  Nothing is lost by this: every  *)
(* shift in the source is by a pin index 0..31, so no shift overflows.     *)
(***************************************************************************)
EXTENDS Integers, Sequences, FiniteSets, TLC

VARIABLES
    pio,      \* the PIOX peripheral instances not yet consumed by split()
    tokens,   \* the live register tokens (ABCDSR1, ABCDSR2, PER, PDR, OER, ODR)
    handles,  \* the live indexed pin handles $PXi<MODE>
    erased,   \* the live erased pin handles $PXx<MODE>
    hw,       \* the registers of each port
    acc,      \* the register accesses made by the last call, in order
    last,     \* the last call: function, port, pin index, receiver's MODE
    nops,     \* number of calls made so far
    ctx,      \* per execution context: the call in flight, if any
    applied   \* the last call completed on each pin, per kind of call

vars == <<pio, tokens, handles, erased, hw, acc, last, nops, ctx, applied>>

----------------------------------------------------------------------------
(* Bounds of the model *)

\* Calls in one run, split() included.
MaxCalls == 4

\* The pins the calls are applied to are 0..NumLowPins-1 and the top pin 31;
\* every port still has all 32 handles and all 32 bits in every register.
NumLowPins == 2

----------------------------------------------------------------------------
(* Program constants *)

\* Pins per port: the pio! instantiations list indices 0..31.
NumPins == 32

Ports == {"PIOA", "PIOB", "PIOC"}

Pins == 0..(NumPins - 1)

ActivePins == (0..(NumLowPins - 1)) \cup {NumPins - 1}

PeripheralModes == {"PeripheralA", "PeripheralB", "PeripheralC", "PeripheralD"}

\* Output<MODE>; the only MODE the code ever constructs is ().
OutputModes == {"Output<()>"}

InputFloating == "Input<Floating>"

TokenNames == {"ABCDSR1", "ABCDSR2", "PER", "PDR", "OER", "ODR"}

----------------------------------------------------------------------------
(* 32-bit words *)

Word == SUBSET Pins

AllOnes == Pins

Shl1(i) == {i}

Not(w) == AllOnes \ w

And(a, b) == a \cap b

Or(a, b) == a \cup b

----------------------------------------------------------------------------
(* The port's registers, as the peripheral access crate exposes them *)

\* PSR bit set: the pin is under plain I/O (PIO) control; clear: the pin is
\* handed to the peripheral multiplexer.  OSR bit set: output enabled.
\* ODSR bit set: the pin is driven high.
RegWrite(h, PIOX, reg, bits) ==
    LET r == h[PIOX] IN
    [h EXCEPT ![PIOX] =
        CASE reg = "PER"     -> [r EXCEPT !.psr = r.psr \cup bits]
          [] reg = "PDR"     -> [r EXCEPT !.psr = r.psr \ bits]
          [] reg = "OER"     -> [r EXCEPT !.osr = r.osr \cup bits]
          [] reg = "ODR"     -> [r EXCEPT !.osr = r.osr \ bits]
          [] reg = "SODR"    -> [r EXCEPT !.odsr = r.odsr \cup bits]
          [] reg = "CODR"    -> [r EXCEPT !.odsr = r.odsr \ bits]
          [] reg = "ODSR"    -> [r EXCEPT !.odsr = bits]
          [] reg = "ABCDSR1" -> [r EXCEPT !.abcdsr1 = bits]
          [] reg = "ABCDSR2" -> [r EXCEPT !.abcdsr2 = bits]]

RegRead(h, PIOX, reg) ==
    CASE reg = "ABCDSR1" -> h[PIOX].abcdsr1
      [] reg = "ABCDSR2" -> h[PIOX].abcdsr2
      [] reg = "ODSR"    -> h[PIOX].odsr

Access(PIOX, reg, op, bits) ==
    [port |-> PIOX, reg |-> reg, op |-> op, bits |-> bits]

\* reg.write(|w| w.bits(bits)): one store
write(m, PIOX, reg, bits) ==
    [hw  |-> RegWrite(m.hw, PIOX, reg, bits),
     acc |-> Append(m.acc, Access(PIOX, reg, "write", bits))]

\* reg.modify(|r, w| w.bits(F(r.bits()))): one load, then one store
\* (f is the closure, a function of the word read)
modify(m, PIOX, reg, f) ==
    LET r == RegRead(m.hw, PIOX, reg) IN
    [hw  |-> RegWrite(m.hw, PIOX, reg, f[r]),
     acc |-> m.acc \o <<Access(PIOX, reg, "read", r),
                        Access(PIOX, reg, "write", f[r])>>]

----------------------------------------------------------------------------
(* Handles and tokens *)

Token(PIOX, reg) == [port |-> PIOX, reg |-> reg]

\* $PXi<MODE>: port and index are part of the type
PXi(PIOX, i, mode) == [port |-> PIOX, pin |-> i, mode |-> mode]

\* $PXx<MODE>: the port is part of the type, the index is the field i: u8
PXx(PIOX, i, mode) == [port |-> PIOX, i |-> i % 256, mode |-> mode]

\* The methods of the impl blocks: impl<MODE> $PXi<MODE> gives every indexed
\* handle the five into_* transitions; impl<MODE> $PXi<Output<MODE>> and
\* impl<MODE> OutputPin for $PXi<Output<MODE>> add downgrade and the drives.
PeripheralOps ==
    {"into_peripheralA", "into_peripheralB", "into_peripheralC", "into_peripheralD"}

DriveOps == {"set_high", "set_low"}

\* The into_peripheral* methods in an impl $PXi<Input<Floating>> block
MethodsPXi_SelectFromInputOnly(mode) ==
    (IF mode = InputFloating THEN PeripheralOps ELSE {}) \cup {"into_output"}
        \cup (IF mode \in OutputModes THEN {"downgrade"} \cup DriveOps ELSE {})

\* No into_* method on an Output handle
MethodsPXi_OutputTerminal(mode) ==
    IF mode \in OutputModes
    THEN {"downgrade"} \cup DriveOps
    ELSE PeripheralOps \cup {"into_output"}

\* downgrade in the impl<MODE> $PXi<MODE> block
MethodsPXi_DowngradeAny(mode) ==
    PeripheralOps \cup {"into_output", "downgrade"}
        \cup (IF mode \in OutputModes THEN DriveOps ELSE {})

MethodsPXi(mode) ==
    PeripheralOps \cup {"into_output"}
        \cup (IF mode \in OutputModes THEN {"downgrade"} \cup DriveOps ELSE {})

\* impl<MODE> OutputPin for $PXx<Output<MODE>> is the only impl of $PXx
MethodsPXx(mode) == IF mode \in OutputModes THEN DriveOps ELSE {}

----------------------------------------------------------------------------
(* The functions of the pio! macro.  m is the machine: the registers and   *)
(* the accesses made so far by the call; PIOX and i are the macro's        *)
(* parameters $PIOX and $i.                                                *)

\* into_peripheralA storing the mask to PER instead of PDR
into_peripheralA_per(m, PIOX, i) ==
    LET m1 == write(m, PIOX, "PER", Shl1(i))
        m2 == modify(m1, PIOX, "ABCDSR1",
                     [r \in Word |-> And(And(r, Not(Shl1(i))), Not(Shl1(i)))])
        m3 == modify(m2, PIOX, "ABCDSR2",
                     [r \in Word |-> And(And(r, Not(Shl1(i))), Not(Shl1(i)))])
    IN  [hw |-> m3.hw, acc |-> m3.acc, ret |-> PXi(PIOX, i, "PeripheralA")]

into_peripheralA(m, PIOX, i) ==
    LET m1 == write(m, PIOX, "PDR", Shl1(i))
        m2 == modify(m1, PIOX, "ABCDSR1",
                     [r \in Word |-> And(And(r, Not(Shl1(i))), Not(Shl1(i)))])
        m3 == modify(m2, PIOX, "ABCDSR2",
                     [r \in Word |-> And(And(r, Not(Shl1(i))), Not(Shl1(i)))])
    IN  [hw |-> m3.hw, acc |-> m3.acc, ret |-> PXi(PIOX, i, "PeripheralA")]

\* into_peripheralB with the two select registers exchanged
into_peripheralB_swapped(m, PIOX, i) ==
    LET m1 == write(m, PIOX, "PDR", Shl1(i))
        m2 == modify(m1, PIOX, "ABCDSR1",
                     [r \in Word |-> Or(And(r, Not(Shl1(i))), Shl1(i))])
        m3 == modify(m2, PIOX, "ABCDSR2",
                     [r \in Word |-> And(And(r, Not(Shl1(i))), Not(Shl1(i)))])
    IN  [hw |-> m3.hw, acc |-> m3.acc, ret |-> PXi(PIOX, i, "PeripheralB")]

\* into_peripheralB flipping the pin's bit of ABCDSR2 instead of setting it
into_peripheralB_toggle(m, PIOX, i) ==
    LET m1 == write(m, PIOX, "PDR", Shl1(i))
        m2 == modify(m1, PIOX, "ABCDSR1",
                     [r \in Word |-> And(And(r, Not(Shl1(i))), Not(Shl1(i)))])
        m3 == modify(m2, PIOX, "ABCDSR2",
                     [r \in Word |-> Or(And(r, Not(Shl1(i))), And(Shl1(i), Not(r)))])
    IN  [hw |-> m3.hw, acc |-> m3.acc, ret |-> PXi(PIOX, i, "PeripheralB")]

into_peripheralB(m, PIOX, i) ==
    LET m1 == write(m, PIOX, "PDR", Shl1(i))
        m2 == modify(m1, PIOX, "ABCDSR1",
                     [r \in Word |-> And(And(r, Not(Shl1(i))), Not(Shl1(i)))])
        m3 == modify(m2, PIOX, "ABCDSR2",
                     [r \in Word |-> Or(And(r, Not(Shl1(i))), Shl1(i))])
    IN  [hw |-> m3.hw, acc |-> m3.acc, ret |-> PXi(PIOX, i, "PeripheralB")]

\* into_peripheralC storing the pin's mask without the bits read
into_peripheralC_overwrite(m, PIOX, i) ==
    LET m1 == write(m, PIOX, "PDR", Shl1(i))
        m2 == modify(m1, PIOX, "ABCDSR1", [r \in Word |-> Shl1(i)])
        m3 == modify(m2, PIOX, "ABCDSR2",
                     [r \in Word |-> And(And(r, Not(Shl1(i))), Not(Shl1(i)))])
    IN  [hw |-> m3.hw, acc |-> m3.acc, ret |-> PXi(PIOX, i, "PeripheralC")]

into_peripheralC(m, PIOX, i) ==
    LET m1 == write(m, PIOX, "PDR", Shl1(i))
        m2 == modify(m1, PIOX, "ABCDSR1",
                     [r \in Word |-> Or(And(r, Not(Shl1(i))), Shl1(i))])
        m3 == modify(m2, PIOX, "ABCDSR2",
                     [r \in Word |-> And(And(r, Not(Shl1(i))), Not(Shl1(i)))])
    IN  [hw |-> m3.hw, acc |-> m3.acc, ret |-> PXi(PIOX, i, "PeripheralC")]

\* into_peripheralD handing the pin over after the select registers are set
into_peripheralD_pdr_last(m, PIOX, i) ==
    LET m1 == modify(m, PIOX, "ABCDSR1",
                     [r \in Word |-> Or(And(r, Not(Shl1(i))), Shl1(i))])
        m2 == modify(m1, PIOX, "ABCDSR2",
                     [r \in Word |-> Or(And(r, Not(Shl1(i))), Shl1(i))])
        m3 == write(m2, PIOX, "PDR", Shl1(i))
    IN  [hw |-> m3.hw, acc |-> m3.acc, ret |-> PXi(PIOX, i, "PeripheralD")]

into_peripheralD(m, PIOX, i) ==
    LET m1 == write(m, PIOX, "PDR", Shl1(i))
        m2 == modify(m1, PIOX, "ABCDSR1",
                     [r \in Word |-> Or(And(r, Not(Shl1(i))), Shl1(i))])
        m3 == modify(m2, PIOX, "ABCDSR2",
                     [r \in Word |-> Or(And(r, Not(Shl1(i))), Shl1(i))])
    IN  [hw |-> m3.hw, acc |-> m3.acc, ret |-> PXi(PIOX, i, "PeripheralD")]

\* into_output that also takes the pin back under PIO control through PER
into_output_per(m, PIOX, i) ==
    LET m1 == write(m, PIOX, "PER", Shl1(i))
        m2 == write(m1, PIOX, "OER", Shl1(i))
    IN  [hw |-> m2.hw, acc |-> m2.acc, ret |-> PXi(PIOX, i, "Output<()>")]

\* into_output storing the mask to ODR instead of OER
into_output_odr(m, PIOX, i) ==
    LET m1 == write(m, PIOX, "ODR", Shl1(i))
    IN  [hw |-> m1.hw, acc |-> m1.acc, ret |-> PXi(PIOX, i, "Output<()>")]

into_output(m, PIOX, i) ==
    LET m1 == write(m, PIOX, "OER", Shl1(i))
    IN  [hw |-> m1.hw, acc |-> m1.acc, ret |-> PXi(PIOX, i, "Output<()>")]

\* downgrade storing a constant index
downgrade_index0(self) == PXx(self.port, 0, self.mode)

\* $PXi<Output<MODE>>::downgrade: no register access
downgrade(self) == PXx(self.port, self.pin, self.mode)

\* set_high as a load of the output data register and a store of it with
\* the pin's bit set
PXi_set_high_rmw(m, PIOX, i) ==
    modify(m, PIOX, "ODSR", [r \in Word |-> Or(r, Shl1(i))])

\* OutputPin for $PXi<Output<MODE>>
PXi_set_high(m, PIOX, i) == write(m, PIOX, "SODR", Shl1(i))

PXi_set_low(m, PIOX, i) == write(m, PIOX, "CODR", Shl1(i))

\* set_high of the erased handle going through the register block of PIOA
PXx_set_high_pioa(m, self) == write(m, "PIOA", "SODR", Shl1(self.i))

\* OutputPin for $PXx<Output<MODE>>
PXx_set_high(m, self) == write(m, self.port, "SODR", Shl1(self.i))

\* set_low of the erased handle storing the complement of the mask
PXx_set_low_inverted(m, self) == write(m, self.port, "CODR", Not(Shl1(self.i)))

PXx_set_low(m, self) == write(m, self.port, "CODR", Shl1(self.i))

\* The register a token's accessor hands out: ABCDSR1::abcdsr1 gives
\* abcdsr[0], ABCDSR2::abcdsr2 gives abcdsr[1], PER::per gives per, ...
\* (named here as the register is named in write and modify).
Gates_abcdsr2_is_abcdsr0(tok) ==
    CASE tok = "ABCDSR1" -> "ABCDSR1"
      [] tok = "ABCDSR2" -> "ABCDSR1"
      [] tok = "PER"     -> "PER"
      [] tok = "PDR"     -> "PDR"
      [] tok = "OER"     -> "OER"
      [] tok = "ODR"     -> "ODR"

Gates(tok) ==
    CASE tok = "ABCDSR1" -> "ABCDSR1"
      [] tok = "ABCDSR2" -> "ABCDSR2"
      [] tok = "PER"     -> "PER"
      [] tok = "PDR"     -> "PDR"
      [] tok = "OER"     -> "OER"
      [] tok = "ODR"     -> "ODR"

\* split() without the last pin of the list
split_pins_short(PIOX) == {PXi(PIOX, i, InputFloating) : i \in 0..(NumPins - 2)}

\* split(): the six tokens and the 32 handles of Parts
split_tokens(PIOX) == {Token(PIOX, reg) : reg \in TokenNames}

split_pins(PIOX) == {PXi(PIOX, i, InputFloating) : i \in Pins}

\* The select-peripheral call named op, applied to machine m
Select(op, m, PIOX, i) ==
    CASE op = "into_peripheralA" -> into_peripheralA(m, PIOX, i)
      [] op = "into_peripheralB" -> into_peripheralB(m, PIOX, i)
      [] op = "into_peripheralC" -> into_peripheralC(m, PIOX, i)
      [] op = "into_peripheralD" -> into_peripheralD(m, PIOX, i)

----------------------------------------------------------------------------
(* State machine *)

\* The machine at the start of a call
Start == [hw |-> hw, acc |-> <<>>]

Call(op, PIOX, i, recv, from) ==
    [op |-> op, port |-> PIOX, i |-> i, recv |-> recv, from |-> from]

\* What the select registers and the output data latch hold before the first
\* call: the reset value 0, all ones, and a mixed pattern
\* (0xAAAAAAAA in ABCDSR1 and ODSR, 0x55555555 in ABCDSR2).
OddBits == {b \in Pins : b % 2 = 1}

Prior ==
    [k \in 0..2 |->
        CASE k = 0 -> [abcdsr1 |-> {}, abcdsr2 |-> {}, odsr |-> {}]
          [] k = 1 -> [abcdsr1 |-> AllOnes, abcdsr2 |-> AllOnes, odsr |-> AllOnes]
          [] k = 2 -> [abcdsr1 |-> OddBits, abcdsr2 |-> Not(OddBits),
                       odsr |-> OddBits]]

PortNo == [P \in Ports |-> CASE P = "PIOA" -> 0 [] P = "PIOB" -> 1 [] P = "PIOC" -> 2]

\* A port before split(): every pin under PIO control, outputs disabled.
ResetRegs(prior) ==
    [psr |-> AllOnes, osr |-> {}, odsr |-> prior.odsr,
     abcdsr1 |-> prior.abcdsr1, abcdsr2 |-> prior.abcdsr2]

\* The execution contexts of the program: the main program and an
\* interrupt handler
Contexts == {"main", "irq"}

NoCall == Call("none", "none", -1, "none", "none")

\* A context with no call in flight; otherwise call is the call, self the
\* handle moved or borrowed into it, toks the tokens it borrows, k the number
\* of its register accesses already made and r the word its last load returned
Idle == [call |-> NoCall, self |-> [port |-> "none"], toks |-> {}, k |-> 0, r |-> {}]

Init ==
    /\ pio = Ports
    /\ tokens = {}
    /\ handles = {}
    /\ erased = {}
    /\ \E rot \in 0..2 :
          hw = [P \in Ports |-> ResetRegs(Prior[(PortNo[P] + rot) % 3])]
    /\ acc = <<>>
    /\ last = Call("none", "none", -1, "none", "none")
    /\ nops = 0
    /\ ctx = [c \in Contexts |-> Idle]
    /\ applied = {}

\* split(&self): the peripheral instance stays usable
Split_by_reference(PIOX) ==
    /\ nops < MaxCalls
    /\ PIOX \in pio
    /\ pio' = pio
    /\ tokens' = tokens \cup split_tokens(PIOX)
    /\ handles' = handles \cup split_pins(PIOX)
    /\ acc' = <<>>
    /\ last' = Call("split", PIOX, -1, "PIOX", "none")
    /\ nops' = nops + 1
    /\ UNCHANGED <<erased, hw, ctx, applied>>

\* GpioExt::split(self): consumes the peripheral instance
Split(PIOX) ==
    /\ nops < MaxCalls
    /\ PIOX \in pio
    /\ pio' = pio \ {PIOX}
    /\ tokens' = tokens \cup split_tokens(PIOX)
    /\ handles' = handles \cup split_pins(PIOX)
    /\ acc' = <<>>
    /\ last' = Call("split", PIOX, -1, "PIOX", "none")
    /\ nops' = nops + 1
    /\ UNCHANGED <<erased, hw, ctx, applied>>

\* The &mut borrows of a transition: the tokens must be live
Borrowed(PIOX, regs) == {Token(PIOX, reg) : reg \in regs} \subseteq tokens

\* self by value: the handle is moved into the call and the result replaces it
IntoPeripheralA(h) ==
    /\ nops < MaxCalls
    /\ h \in handles /\ h.pin \in ActivePins
    /\ "into_peripheralA" \in MethodsPXi(h.mode)
    /\ Borrowed(h.port, {"PDR", "ABCDSR1", "ABCDSR2"})
    /\ LET m == into_peripheralA(Start, h.port, h.pin) IN
          /\ hw' = m.hw
          /\ acc' = m.acc
          /\ handles' = (handles \ {h}) \cup {m.ret}
    /\ last' = Call("into_peripheralA", h.port, h.pin, "PXi", h.mode)
    /\ nops' = nops + 1
    /\ UNCHANGED <<pio, tokens, erased, ctx, applied>>

IntoPeripheralB(h) ==
    /\ nops < MaxCalls
    /\ h \in handles /\ h.pin \in ActivePins
    /\ "into_peripheralB" \in MethodsPXi(h.mode)
    /\ Borrowed(h.port, {"PDR", "ABCDSR1", "ABCDSR2"})
    /\ LET m == into_peripheralB(Start, h.port, h.pin) IN
          /\ hw' = m.hw
          /\ acc' = m.acc
          /\ handles' = (handles \ {h}) \cup {m.ret}
    /\ last' = Call("into_peripheralB", h.port, h.pin, "PXi", h.mode)
    /\ nops' = nops + 1
    /\ UNCHANGED <<pio, tokens, erased, ctx, applied>>

IntoPeripheralC(h) ==
    /\ nops < MaxCalls
    /\ h \in handles /\ h.pin \in ActivePins
    /\ "into_peripheralC" \in MethodsPXi(h.mode)
    /\ Borrowed(h.port, {"PDR", "ABCDSR1", "ABCDSR2"})
    /\ LET m == into_peripheralC(Start, h.port, h.pin) IN
          /\ hw' = m.hw
          /\ acc' = m.acc
          /\ handles' = (handles \ {h}) \cup {m.ret}
    /\ last' = Call("into_peripheralC", h.port, h.pin, "PXi", h.mode)
    /\ nops' = nops + 1
    /\ UNCHANGED <<pio, tokens, erased, ctx, applied>>

IntoPeripheralD(h) ==
    /\ nops < MaxCalls
    /\ h \in handles /\ h.pin \in ActivePins
    /\ "into_peripheralD" \in MethodsPXi(h.mode)
    /\ Borrowed(h.port, {"PDR", "ABCDSR1", "ABCDSR2"})
    /\ LET m == into_peripheralD(Start, h.port, h.pin) IN
          /\ hw' = m.hw
          /\ acc' = m.acc
          /\ handles' = (handles \ {h}) \cup {m.ret}
    /\ last' = Call("into_peripheralD", h.port, h.pin, "PXi", h.mode)
    /\ nops' = nops + 1
    /\ UNCHANGED <<pio, tokens, erased, ctx, applied>>

\* into_output taking self by reference: the old handle stays live
IntoOutput_keeps_self(h) ==
    /\ nops < MaxCalls
    /\ h \in handles /\ h.pin \in ActivePins
    /\ "into_output" \in MethodsPXi(h.mode)
    /\ Borrowed(h.port, {"OER"})
    /\ LET m == into_output(Start, h.port, h.pin) IN
          /\ hw' = m.hw
          /\ acc' = m.acc
          /\ handles' = handles \cup {m.ret}
    /\ last' = Call("into_output", h.port, h.pin, "PXi", h.mode)
    /\ nops' = nops + 1
    /\ UNCHANGED <<pio, tokens, erased, ctx, applied>>

IntoOutput(h) ==
    /\ nops < MaxCalls
    /\ h \in handles /\ h.pin \in ActivePins
    /\ "into_output" \in MethodsPXi(h.mode)
    /\ Borrowed(h.port, {"OER"})
    /\ LET m == into_output(Start, h.port, h.pin) IN
          /\ hw' = m.hw
          /\ acc' = m.acc
          /\ handles' = (handles \ {h}) \cup {m.ret}
    /\ last' = Call("into_output", h.port, h.pin, "PXi", h.mode)
    /\ nops' = nops + 1
    /\ UNCHANGED <<pio, tokens, erased, ctx, applied>>

\* self by value: the indexed handle is moved into the erased one
Downgrade(h) ==
    /\ nops < MaxCalls
    /\ h \in handles /\ h.pin \in ActivePins
    /\ "downgrade" \in MethodsPXi(h.mode)
    /\ handles' = handles \ {h}
    /\ erased' = erased \cup {downgrade(h)}
    /\ acc' = <<>>
    /\ last' = Call("downgrade", h.port, h.pin, "PXi", h.mode)
    /\ nops' = nops + 1
    /\ UNCHANGED <<pio, tokens, hw, ctx, applied>>

\* &mut self: the handle stays live
SetHighPXi(h) ==
    /\ nops < MaxCalls
    /\ h \in handles /\ h.pin \in ActivePins
    /\ "set_high" \in MethodsPXi(h.mode)
    /\ LET m == PXi_set_high(Start, h.port, h.pin) IN
          hw' = m.hw /\ acc' = m.acc
    /\ last' = Call("set_high", h.port, h.pin, "PXi", h.mode)
    /\ nops' = nops + 1
    /\ UNCHANGED <<pio, tokens, handles, erased, ctx, applied>>

SetLowPXi(h) ==
    /\ nops < MaxCalls
    /\ h \in handles /\ h.pin \in ActivePins
    /\ "set_low" \in MethodsPXi(h.mode)
    /\ LET m == PXi_set_low(Start, h.port, h.pin) IN
          hw' = m.hw /\ acc' = m.acc
    /\ last' = Call("set_low", h.port, h.pin, "PXi", h.mode)
    /\ nops' = nops + 1
    /\ UNCHANGED <<pio, tokens, handles, erased, ctx, applied>>

SetHighPXx(e) ==
    /\ nops < MaxCalls
    /\ e \in erased
    /\ "set_high" \in MethodsPXx(e.mode)
    /\ LET m == PXx_set_high(Start, e) IN
          hw' = m.hw /\ acc' = m.acc
    /\ last' = Call("set_high", e.port, e.i, "PXx", e.mode)
    /\ nops' = nops + 1
    /\ UNCHANGED <<pio, tokens, handles, erased, ctx, applied>>

SetLowPXx(e) ==
    /\ nops < MaxCalls
    /\ e \in erased
    /\ "set_low" \in MethodsPXx(e.mode)
    /\ LET m == PXx_set_low(Start, e) IN
          hw' = m.hw /\ acc' = m.acc
    /\ last' = Call("set_low", e.port, e.i, "PXx", e.mode)
    /\ nops' = nops + 1
    /\ UNCHANGED <<pio, tokens, handles, erased, ctx, applied>>

Next ==
    \/ \E PIOX \in Ports : Split(PIOX)
    \/ \E h \in handles : IntoPeripheralA(h)
    \/ \E h \in handles : IntoPeripheralB(h)
    \/ \E h \in handles : IntoPeripheralC(h)
    \/ \E h \in handles : IntoPeripheralD(h)
    \/ \E h \in handles : IntoOutput(h)
    \/ \E h \in handles : Downgrade(h)
    \/ \E h \in handles : SetHighPXi(h)
    \/ \E h \in handles : SetLowPXi(h)
    \/ \E e \in erased : SetHighPXx(e)
    \/ \E e \in erased : SetLowPXx(e)

Spec == Init /\ [][Next]_vars

----------------------------------------------------------------------------
(* Calls issued from several execution contexts.  A register access is one *)
(* step: write is one store, modify is a load and then a store, and the    *)
(* accesses of calls running in different contexts interleave.  A call     *)
(* holds its receiver and the tokens it borrows (&mut) from its first      *)
(* access to its last.                                                     *)

\* Calls begun in one run
MaxConcCalls == 2

\* The pins the contexts work on are 0..NumConcLowPins-1 and the top pin 31
NumConcLowPins == 1

ConcPins == (0..(NumConcLowPins - 1)) \cup {NumPins - 1}

\* The tokens a call borrows: pdr, abcdsr1, abcdsr2 for into_peripheralX,
\* oer for into_output, none for the drives
Needs(op, PIOX) ==
    {Token(PIOX, reg) :
        reg \in CASE op \in PeripheralOps -> {"PDR", "ABCDSR1", "ABCDSR2"}
                   [] op = "into_output"   -> {"OER"}
                   [] op \in DriveOps      -> {}}

\* Tokens lent to several calls at once
Exclusive_shared(c, toks) == TRUE

\* &mut: no other context's call holds any of the tokens
Exclusive(c, toks) == \A d \in Contexts \ {c} : ctx[d].toks \cap toks = {}

\* self / &mut self: no call in flight holds the handle
Free(h) == \A d \in Contexts : ctx[d].self # h

\* The code of the call in flight f, run on machine m
Exec(f, m) ==
    CASE f.call.op \in PeripheralOps -> Select(f.call.op, m, f.call.port, f.call.i)
      [] f.call.op = "into_output" -> into_output(m, f.call.port, f.call.i)
      [] f.call.op = "set_high" /\ f.call.recv = "PXi" ->
             PXi_set_high(m, f.call.port, f.call.i)
      [] f.call.op = "set_low" /\ f.call.recv = "PXi" ->
             PXi_set_low(m, f.call.port, f.call.i)
      [] f.call.op = "set_high" /\ f.call.recv = "PXx" -> PXx_set_high(m, f.self)
      [] f.call.op = "set_low" /\ f.call.recv = "PXx" -> PXx_set_low(m, f.self)

\* The registers as the call in flight f sees them at its next access: when
\* its previous access was the load of a modify, the closure works on the
\* word r that load returned, whatever the register holds by now
Seen(f) ==
    LET prev == Exec(f, Start).acc[f.k] IN
    [hw  |-> IF f.k > 0 /\ prev.op = "read"
             THEN RegWrite(hw, prev.port, prev.reg, f.r)
             ELSE hw,
     acc |-> <<>>]

Kind(op) ==
    CASE op \in PeripheralOps -> "select"
      [] op = "into_output"   -> "output"
      [] op \in DriveOps      -> "drive"

\* Context c makes the next register access of its call f; the last access
\* ends the call: a transition's result replaces the receiver.  run is the
\* call's code on the registers as the call sees them, a its next access.
Perform(c, f) ==
    \E run \in {Exec(f, Seen(f))} :
        \E a \in {run.acc[f.k + 1]} :
            \E done \in {f.k + 1 = Len(run.acc)} :
                /\ hw' = IF a.op = "write"
                         THEN RegWrite(hw, a.port, a.reg, a.bits) ELSE hw
                /\ ctx' = [ctx EXCEPT ![c] =
                              IF done THEN Idle
                              ELSE [f EXCEPT !.k = f.k + 1,
                                             !.r = IF a.op = "read"
                                                   THEN RegRead(hw, a.port, a.reg)
                                                   ELSE f.r]]
                /\ handles' = IF done /\ f.call.op \notin DriveOps
                               THEN (handles \ {f.self}) \cup {run.ret}
                               ELSE handles
                /\ applied' = IF done
                               THEN {x \in applied : ~(/\ x.port = f.call.port
                                                        /\ x.i = f.call.i
                                                        /\ x.kind = Kind(f.call.op))}
                                    \cup {[port |-> f.call.port, i |-> f.call.i,
                                           kind |-> Kind(f.call.op),
                                           op |-> f.call.op, by |-> c]}
                               ELSE applied

\* Context c calls split() of port PIOX: no register access, so the call
\* begins and returns in one step
BeginSplit(c, PIOX) ==
    /\ nops < MaxConcCalls
    /\ ctx[c].call.op = "none"
    /\ PIOX \in pio
    /\ pio' = pio \ {PIOX}
    /\ tokens' = tokens \cup split_tokens(PIOX)
    /\ handles' = handles \cup split_pins(PIOX)
    /\ nops' = nops + 1
    /\ UNCHANGED <<erased, hw, acc, last, ctx, applied>>

\* Context c calls method op of the indexed handle h.  downgrade makes no
\* register access: it begins and returns in one step.
BeginPXi(c, op, h) ==
    /\ nops < MaxConcCalls
    /\ ctx[c].call.op = "none"
    /\ h \in handles /\ h.pin \in ConcPins /\ Free(h)
    /\ op \in MethodsPXi(h.mode)
    /\ IF op = "downgrade"
       THEN /\ handles' = handles \ {h}
            /\ erased' = erased \cup {downgrade(h)}
            /\ UNCHANGED <<hw, ctx, applied>>
       ELSE /\ Needs(op, h.port) \subseteq tokens
            /\ Exclusive(c, Needs(op, h.port))
            /\ Perform(c, [call |-> Call(op, h.port, h.pin, "PXi", h.mode),
                            self |-> h, toks |-> Needs(op, h.port),
                            k |-> 0, r |-> {}])
            /\ erased' = erased
    /\ nops' = nops + 1
    /\ UNCHANGED <<pio, tokens, acc, last>>

\* Context c calls method op of the erased handle e
BeginPXx(c, op, e) ==
    /\ nops < MaxConcCalls
    /\ ctx[c].call.op = "none"
    /\ e \in erased /\ Free(e)
    /\ op \in MethodsPXx(e.mode)
    /\ Perform(c, [call |-> Call(op, e.port, e.i, "PXx", e.mode), self |-> e,
                    toks |-> {}, k |-> 0, r |-> {}])
    /\ nops' = nops + 1
    /\ UNCHANGED <<pio, tokens, erased, acc, last>>

\* Context c goes on with its call in flight
Step(c) ==
    /\ ctx[c].call.op # "none"
    /\ Perform(c, ctx[c])
    /\ UNCHANGED <<pio, tokens, erased, acc, last, nops>>

\* into_output on each pin of a set, one after the other
RECURSIVE IntoOutputAll(_, _, _)
IntoOutputAll(m, PIOX, pins) ==
    IF pins = {} THEN m
    ELSE LET i == CHOOSE p \in pins : TRUE
         IN  IntoOutputAll(into_output(m, PIOX, i), PIOX, pins \ {i})

\* The contexts start after main has split one port and either left its
\* handles as they are, or made the pins outputs, or made them outputs and
\* erased their indices
InitConc ==
    \E PIOX \in Ports, prep \in {"Input", "Output", "Erased"} :
        LET reset == [hw  |-> [P \in Ports |-> ResetRegs(Prior[PortNo[P]])],
                      acc |-> <<>>]
            outs  == IF prep = "Input" THEN {} ELSE ConcPins
            made  == {into_output(reset, PIOX, i).ret : i \in outs}
        IN  /\ pio = Ports \ {PIOX}
            /\ tokens = split_tokens(PIOX)
            /\ handles = {h \in split_pins(PIOX) : h.pin \notin outs}
                            \cup (IF prep = "Output" THEN made ELSE {})
            /\ erased = IF prep = "Erased" THEN {downgrade(h) : h \in made} ELSE {}
            /\ hw = IntoOutputAll(reset, PIOX, outs).hw
            /\ acc = <<>>
            /\ last = NoCall
            /\ nops = 0
            /\ ctx = [c \in Contexts |-> Idle]
            /\ applied = {}

NextConc ==
    \/ \E c \in Contexts : \E PIOX \in Ports : BeginSplit(c, PIOX)
    \/ \E c \in Contexts : \E h \in handles :
          \E op \in PeripheralOps \cup {"into_output", "downgrade"} \cup DriveOps :
              BeginPXi(c, op, h)
    \/ \E c \in Contexts : \E e \in erased : \E op \in DriveOps : BeginPXx(c, op, e)
    \/ \E c \in Contexts : Step(c)

SpecConc == InitConc /\ [][NextConc]_vars

----------------------------------------------------------------------------
(* Properties *)

\* The 2-bit function code of a Peripheral marker: <<select-1 bit, select-2 bit>>
CodeOf(mode) ==
    CASE mode = "PeripheralA" -> <<0, 0>>
      [] mode = "PeripheralB" -> <<0, 1>>
      [] mode = "PeripheralC" -> <<1, 0>>
      [] mode = "PeripheralD" -> <<1, 1>>

\* The Peripheral marker an into_peripheralX call is declared to return
TargetOf(op) ==
    CASE op = "into_peripheralA" -> "PeripheralA"
      [] op = "into_peripheralB" -> "PeripheralB"
      [] op = "into_peripheralC" -> "PeripheralC"
      [] op = "into_peripheralD" -> "PeripheralD"

Bit(w, i) == IF i \in w THEN 1 ELSE 0

\* The function code the select registers of port PIOX hold for pin i
SelectCode(PIOX, i) == <<Bit(hw[PIOX].abcdsr1, i), Bit(hw[PIOX].abcdsr2, i)>>

\* C1: a select-peripheral call on pin i of a port leaves the bit of every
\* other index j # i as it was, in ABCDSR1 and in ABCDSR2.
C1_SelectLeavesOtherBits ==
    [][last'.op \in PeripheralOps =>
          \A j \in Pins \ {last'.i} :
              /\ Bit(hw'[last'.port].abcdsr1, j) = Bit(hw[last'.port].abcdsr1, j)
              /\ Bit(hw'[last'.port].abcdsr2, j) = Bit(hw[last'.port].abcdsr2, j)]_vars

\* A selection of peripheral C on pin 0 of a port whose select registers held
\* the mixed pattern: the other 31 bits of both registers are still the
\* pattern's.
C1_Witness ==
    /\ last.op = "into_peripheralC" /\ last.i = 0
    /\ hw[last.port].abcdsr1 = OddBits \cup {0}
    /\ hw[last.port].abcdsr2 = Not(OddBits) \ {0}

\* C2: after select-peripheral-X on pin i the pair (select-1 bit i,
\* select-2 bit i) is (0,0) for A, (0,1) for B, (1,0) for C, (1,1) for D,
\* whatever the registers held before.
C2_SelectCode ==
    last.op \in PeripheralOps =>
        SelectCode(last.port, last.i) = CodeOf(TargetOf(last.op))

\* Peripheral B selected on a pin whose bits were (1,0) before the call
\* (the values the call read): both bits had to change.
C2_Witness ==
    /\ last.op = "into_peripheralB"
    /\ Len(acc) = 5
    /\ last.i \in acc[2].bits /\ last.i \notin acc[4].bits
    /\ SelectCode(last.port, last.i) = <<0, 1>>


\* Pin i of port PIOX is under plain I/O control (not handed to the multiplexer)
PioControlled(PIOX, i) == i \in hw[PIOX].psr

OutputEnabled(PIOX, i) == i \in hw[PIOX].osr

PeripheralMarkerAgrees(PIOX, i, mode) ==
    mode \in PeripheralModes =>
        ~PioControlled(PIOX, i) /\ SelectCode(PIOX, i) = CodeOf(mode)

OutputMarkerAgrees(PIOX, i, mode) ==
    mode \in OutputModes => PioControlled(PIOX, i) /\ OutputEnabled(PIOX, i)

InputMarkerAgrees(PIOX, i, mode) ==
    mode = InputFloating => PioControlled(PIOX, i) /\ ~OutputEnabled(PIOX, i)

\* C3: every live handle's Mode Marker agrees with the hardware state of its
\* pin: Peripheral X means handed to the multiplexer with select code X,
\* Output means under plain I/O control with output enabled, Input(Floating)
\* means still in the reset configuration.
C3_MarkerAgreesWithHardware ==
    /\ \A h \in handles :
          /\ PeripheralMarkerAgrees(h.port, h.pin, h.mode)
          /\ OutputMarkerAgrees(h.port, h.pin, h.mode)
          /\ InputMarkerAgrees(h.port, h.pin, h.mode)
    /\ \A e \in erased : OutputMarkerAgrees(e.port, e.i, e.mode)

\* The parts of C3 the code does keep: the Peripheral and Input markers, and
\* the output-enable bit of an Output marker.
C3_PartsThatHold ==
    /\ \A h \in handles :
          /\ PeripheralMarkerAgrees(h.port, h.pin, h.mode)
          /\ InputMarkerAgrees(h.port, h.pin, h.mode)
          /\ h.mode \in OutputModes => OutputEnabled(h.port, h.pin)
    /\ \A e \in erased : e.mode \in OutputModes => OutputEnabled(e.port, e.i)

\* C4 as claimed: no select-peripheral call is ever applied to a handle whose
\* marker is already Peripheral X.
C4_NoReselect ==
    last.op \in PeripheralOps => last.from \notin PeripheralModes

\* C4 as the code has it: the four select-peripheral methods belong to every
\* indexed handle, whatever its marker, so a Peripheral X handle can be
\* reselected; a selection is always applied to an indexed handle and leaves
\* one whose marker is the peripheral selected last, with that select code.
C4_SelectFromAnyMarker ==
    /\ \A h \in handles : PeripheralOps \subseteq MethodsPXi(h.mode)
    /\ last.op \in PeripheralOps =>
          /\ last.recv = "PXi"
          /\ PXi(last.port, last.i, TargetOf(last.op)) \in handles
          /\ PeripheralMarkerAgrees(last.port, last.i, TargetOf(last.op))

\* Input(Floating) -> Peripheral(C) -> Peripheral(A) on one pin
C4_Witness ==
    /\ last.op = "into_peripheralA" /\ last.from = "PeripheralC"
    /\ PXi(last.port, last.i, "PeripheralA") \in handles
    /\ SelectCode(last.port, last.i) = <<0, 0>>

TransitionOps == PeripheralOps \cup {"into_output", "downgrade"}

\* C5 as claimed: the only calls made on an indexed Output handle are drive
\* high, drive low and erase index, and no call produces an Input marker.
C5_OutputTerminal ==
    /\ (last.recv = "PXi" /\ last.from \in OutputModes) =>
          last.op \in DriveOps \cup {"downgrade"}
    /\ last.op \in TransitionOps =>
          \A h \in handles :
              (h.port = last.port /\ h.pin = last.i) => h.mode # InputFloating

\* C5 as the code has it: an indexed Output handle has the select-peripheral
\* and select-output transitions besides drive high, drive low and erase
\* index; a step creates an Input handle only when it is split(), so no
\* transition produces an Input marker.
C5_OutputKeepsTransitions ==
    [][/\ \A h \in handles' :
             h.mode \in OutputModes =>
                 MethodsPXi(h.mode) =
                     PeripheralOps \cup {"into_output", "downgrade"} \cup DriveOps
       /\ \A h \in handles' \ handles :
             h.mode = InputFloating => last'.op = "split"
       /\ last'.op \in TransitionOps =>
             \A h \in handles' :
                 (h.port = last'.port /\ h.pin = last'.i) =>
                     h.mode \in PeripheralModes \cup OutputModes]_vars

\* Input(Floating) -> Output -> Peripheral(D) on one pin
C5_Witness ==
    /\ last.op = "into_peripheralD" /\ last.from \in OutputModes
    /\ PXi(last.port, last.i, "PeripheralD") \in handles

\* C6: into_output on pin i makes exactly one access, a write of the mask
\* 1 << i to OER; afterwards the output-enable status bit of pin i is set
\* and that of every other pin is as it was.
C6_IntoOutputFrame ==
    [][last'.op = "into_output" =>
          /\ acc' = <<Access(last'.port, "OER", "write", {last'.i})>>
          /\ last'.i \in hw'[last'.port].osr
          /\ \A j \in Pins \ {last'.i} :
                Bit(hw'[last'.port].osr, j) = Bit(hw[last'.port].osr, j)]_vars

\* into_output on one pin while another pin of the port is already an output
C6_Witness ==
    /\ last.op = "into_output"
    /\ \E j \in Pins \ {last.i} : j \in hw[last.port].osr
    /\ last.i \in hw[last.port].osr

\* C7: drive high (low) on an Output handle of pin i, indexed or erased,
\* makes exactly one access, a write of the mask 1 << i to SODR (CODR) of
\* the handle's port: no read, no other register; pin i is then high (low)
\* and the level of every other pin and every other register is as it was.
C7_DriveFrame ==
    [][last'.op \in DriveOps =>
          LET P == last'.port
              i == last'.i
              reg == IF last'.op = "set_high" THEN "SODR" ELSE "CODR"
          IN  /\ last'.from \in OutputModes
              /\ acc' = <<Access(P, reg, "write", {i})>>
              /\ Bit(hw'[P].odsr, i) = (IF last'.op = "set_high" THEN 1 ELSE 0)
              /\ \A j \in Pins \ {i} : Bit(hw'[P].odsr, j) = Bit(hw[P].odsr, j)
              /\ hw' = [hw EXCEPT ![P].odsr = hw'[P].odsr]]_vars

\* drive low through an erased handle on a port whose other pins are high
C7_Witness ==
    /\ last.op = "set_low" /\ last.recv = "PXx"
    /\ hw[last.port].odsr = AllOnes \ {last.i}

\* C8: downgrade of an Output(M) handle of pin i yields an erased handle of
\* the same port with the same sub-mode M and the stored index i, and the
\* erased handle's set_high / set_low make the same register accesses, with
\* the same effect, as the indexed handle's.
C8_ErasedDrivesAlike ==
    /\ last.op = "downgrade" =>
          [port |-> last.port, i |-> last.i, mode |-> last.from] \in erased
    /\ \A h \in handles :
          h.mode \in OutputModes =>
              /\ downgrade(h).mode = h.mode
              /\ PXx_set_high(Start, downgrade(h)) = PXi_set_high(Start, h.port, h.pin)
              /\ PXx_set_low(Start, downgrade(h)) = PXi_set_low(Start, h.port, h.pin)
    /\ \A e \in erased :
          /\ PXx_set_high(Start, e) = PXi_set_high(Start, e.port, e.i)
          /\ PXx_set_low(Start, e) = PXi_set_low(Start, e.port, e.i)
    /\ (last.recv = "PXx" /\ last.op = "set_high") =>
          acc = <<Access(last.port, "SODR", "write", {last.i})>>
    /\ (last.recv = "PXx" /\ last.op = "set_low") =>
          acc = <<Access(last.port, "CODR", "write", {last.i})>>

\* The top pin, made an output and erased, is driven high through the erased
\* handle.
C8_Witness ==
    /\ last.op = "set_high" /\ last.recv = "PXx" /\ last.i = NumPins - 1
    /\ [port |-> last.port, i |-> NumPins - 1, mode |-> "Output<()>"] \in erased
    /\ (NumPins - 1) \in hw[last.port].odsr

\* C9: an erased handle is created only by downgrade of an indexed handle in
\* Output mode, is never turned back into an indexed handle, and once a pin's
\* handle is erased the only calls made for that pin are drive high and
\* drive low on the erased handle.
C9_ErasureIrreversible ==
    [][/\ \A e \in erased :
             /\ e \in erased'
             /\ (last'.port = e.port /\ last'.i = e.i) =>
                   (last'.recv = "PXx" /\ last'.op \in DriveOps)
       /\ \A e \in erased' :
             /\ MethodsPXx(e.mode) = DriveOps
             /\ ~\E h \in handles' : h.port = e.port /\ h.pin = e.i
       /\ \A e \in erased' \ erased :
             /\ last' = Call("downgrade", e.port, e.i, "PXi", e.mode)
             /\ e.mode \in OutputModes
             /\ PXi(e.port, e.i, e.mode) \in handles]_vars

\* A drive through an erased handle; the pin has no indexed handle any more.
C9_Witness ==
    /\ last.recv = "PXx" /\ last.op \in DriveOps
    /\ \E e \in erased : e.port = last.port /\ e.i = last.i
    /\ ~\E h \in handles : h.port = last.port /\ h.pin = last.i

\* The (port, pin index) pairs that have a live handle, indexed or erased
HandlePins ==
    {<<h.port, h.pin>> : h \in handles} \cup {<<e.port, e.i>> : e \in erased}

\* C10: no (port, pin index) has two live handles, indexed or erased: every
\* transition removes the handle it is applied to and adds one handle for
\* the same pin, so each split port keeps exactly one handle per pin.
C10_OneHandlePerPin ==
    /\ Cardinality(HandlePins) = Cardinality(handles) + Cardinality(erased)
    /\ HandlePins = (Ports \ pio) \X Pins

\* A pin taken through all three kinds of transition: its erased handle is
\* the only handle of the pin.
C10_Witness ==
    /\ last.op = "downgrade"
    /\ Cardinality({e \in erased : e.port = last.port /\ e.i = last.i}) = 1
    /\ ~\E h \in handles : h.port = last.port /\ h.pin = last.i
    /\ Cardinality(handles) + Cardinality(erased) = NumPins * Cardinality(Ports \ pio)

\* The parts of port PIOX that are live
TokensOf(PIOX) == {t \in tokens : t.port = PIOX}

HandlesOf(PIOX) == {h \in handles : h.port = PIOX}

ErasedOf(PIOX) == {e \in erased : e.port = PIOX}

\* C11: a port is split at most once: split() consumes the peripheral
\* instance, so a port whose instance is still there has yielded no parts, a
\* port that was split has no instance left to split again and holds one set
\* of tokens and one handle per pin.
C11_SplitOnce ==
    \A PIOX \in Ports :
        IF PIOX \in pio
        THEN TokensOf(PIOX) = {} /\ HandlesOf(PIOX) = {} /\ ErasedOf(PIOX) = {}
        ELSE /\ ~ENABLED Split(PIOX)
             /\ TokensOf(PIOX) = split_tokens(PIOX)
             /\ Cardinality(HandlesOf(PIOX)) + Cardinality(ErasedOf(PIOX)) = NumPins

\* A port has been split and the run may still make calls
C11_Witness ==
    /\ last.op = "split" /\ last.port \notin pio
    /\ nops < MaxCalls
    /\ TokensOf(last.port) = split_tokens(last.port)

\* C12: split() of a port returns 32 pin handles, one per index 0..31, each
\* Input(Floating), and accesses no register: every register of every port
\* is as it was.
C12_SplitFrame ==
    [][last'.op = "split" =>
          /\ handles' \ handles =
                {PXi(last'.port, i, InputFloating) : i \in 0..31}
          /\ Cardinality(handles' \ handles) = 32
          /\ acc' = <<>>
          /\ hw' = hw]_vars

\* PIOC split while its select registers hold a value other than the reset
\* value
C12_Witness ==
    /\ last.op = "split" /\ last.port = "PIOC"
    /\ Cardinality(HandlesOf("PIOC")) = 32
    /\ \A h \in HandlesOf("PIOC") : h.mode = InputFloating
    /\ hw["PIOC"].abcdsr1 = AllOnes /\ hw["PIOC"].psr = AllOnes

\* C15: a select-peripheral call on pin i makes exactly one access to the
\* pin-disable register, a write of the mask 1 << i (no read); pin i is then
\* handed to the multiplexer and the PIO-control status of every other pin is
\* as it was.
C15_PinDisableWrite ==
    [][last'.op \in PeripheralOps =>
          LET P == last'.port
              i == last'.i
          IN  /\ {k \in 1..Len(acc') : acc'[k].reg \in {"PDR", "PER"}} = {1}
              /\ acc'[1] = Access(P, "PDR", "write", {i})
              /\ i \notin hw'[P].psr
              /\ \A j \in Pins \ {i} : Bit(hw'[P].psr, j) = Bit(hw[P].psr, j)]_vars

\* A selection on a pin of a port one of whose other pins was handed over
\* before: only these two pins are with the multiplexer.
C15_Witness ==
    /\ last.op = "into_peripheralA"
    /\ \E j \in Pins \ {last.i} : hw[last.port].psr = AllOnes \ {last.i, j}

\* C16: the accesses of a select-peripheral call are, in this order, the
\* pin-disable write, the read and the write of ABCDSR1, the read and the
\* write of ABCDSR2.
C16_AccessOrder ==
    last.op \in PeripheralOps =>
        /\ Len(acc) = 5
        /\ <<acc[1].reg, acc[1].op>> = <<"PDR", "write">>
        /\ <<acc[2].reg, acc[2].op>> = <<"ABCDSR1", "read">>
        /\ <<acc[3].reg, acc[3].op>> = <<"ABCDSR1", "write">>
        /\ <<acc[4].reg, acc[4].op>> = <<"ABCDSR2", "read">>
        /\ <<acc[5].reg, acc[5].op>> = <<"ABCDSR2", "write">>
        /\ \A k \in 1..5 : acc[k].port = last.port

\* Peripheral D selected on the top pin
C16_Witness ==
    /\ last.op = "into_peripheralD" /\ last.i = NumPins - 1
    /\ Len(acc) = 5 /\ acc[1].bits = {NumPins - 1}

\* C17: the only registers any call accesses are PDR, ABCDSR1, ABCDSR2, OER,
\* SODR and CODR; PER and ODR are never written, and split() and downgrade
\* access nothing.
C17_RegistersAccessed ==
    /\ \A k \in 1..Len(acc) :
          /\ acc[k].reg \in {"PDR", "ABCDSR1", "ABCDSR2", "OER", "SODR", "CODR"}
          /\ acc[k].reg \notin {"PER", "ODR"}
    /\ last.op \in {"none", "split", "downgrade"} => acc = <<>>
    /\ last.op \in PeripheralOps =>
          {acc[k].reg : k \in 1..Len(acc)} = {"PDR", "ABCDSR1", "ABCDSR2"}
    /\ last.op = "into_output" => {acc[k].reg : k \in 1..Len(acc)} = {"OER"}
    /\ last.op = "set_high" => {acc[k].reg : k \in 1..Len(acc)} = {"SODR"}
    /\ last.op = "set_low" => {acc[k].reg : k \in 1..Len(acc)} = {"CODR"}

\* into_output called on a Peripheral handle: still no write to PER
C17_Witness ==
    /\ last.op = "into_output" /\ last.from \in PeripheralModes
    /\ acc = <<Access(last.port, "OER", "write", {last.i})>>
    /\ last.i \notin hw[last.port].psr

\* C18 as stated: a split port has exactly five tokens, each gating a
\* different register, and split() yields 32 handles on 32 different pins.
C18_FiveTokens ==
    \A PIOX \in Ports \ pio :
        /\ Cardinality(TokensOf(PIOX)) = 5
        /\ \A t, u \in TokensOf(PIOX) : Gates(t.reg) = Gates(u.reg) => t = u
        /\ (last.op = "split" /\ last.port = PIOX) =>
              /\ Cardinality(HandlesOf(PIOX)) = 32
              /\ {h.pin : h \in HandlesOf(PIOX)} = 0..31

\* C18: split() of one port yields exactly six tokens (ABCDSR1, ABCDSR2, PER,
\* PDR, OER, ODR) and exactly 32 handles: each token gates a different
\* register of the port and each handle refers to a different pin index.
C18_SixTokens ==
    \A PIOX \in Ports \ pio :
        /\ Cardinality(TokensOf(PIOX)) = 6
        /\ {t.reg : t \in TokensOf(PIOX)} =
              {"ABCDSR1", "ABCDSR2", "PER", "PDR", "OER", "ODR"}
        /\ \A t, u \in TokensOf(PIOX) : Gates(t.reg) = Gates(u.reg) => t = u
        /\ (last.op = "split" /\ last.port = PIOX) =>
              /\ Cardinality(HandlesOf(PIOX)) = 32
              /\ {h.pin : h \in HandlesOf(PIOX)} = 0..31

\* PIOB split as the second port: its six tokens and 32 handles are there
C18_Witness ==
    /\ last.op = "split" /\ last.port = "PIOB"
    /\ Cardinality(pio) = 1
    /\ Cardinality({Gates(t.reg) : t \in TokensOf("PIOB")}) = 6
    /\ Cardinality(HandlesOf("PIOB")) = 32

\* The pin-disable and select-register state of a port
SelectState(h, PIOX) == <<h[PIOX].psr, h[PIOX].abcdsr1, h[PIOX].abcdsr2>>

\* C19: selections on distinct pins of a port commute and a repeated
\* selection is idempotent. From every state in which two more calls can be
\* made, for every two handles of one port on different pins i and j and all
\* selects X and Y: X on i then Y on j gives the pin-disable and
\* select-register state that Y on j then X on i gives, and X on i twice
\* gives the state X on i once gives.
C19_SelectCommutesIdempotent ==
    nops + 2 <= MaxCalls =>
        \A hi, hj \in {h \in handles : h.pin \in ActivePins} :
            (hi.port = hj.port /\ hi.pin < hj.pin) =>
                LET P == hi.port
                    i == hi.pin
                    j == hj.pin
                IN  \A X, Y \in PeripheralOps :
                        LET xi == [hw |-> Select(X, Start, P, i).hw, acc |-> <<>>]
                            yj == [hw |-> Select(Y, Start, P, j).hw, acc |-> <<>>]
                        IN  /\ SelectState(Select(Y, xi, P, j).hw, P) =
                               SelectState(Select(X, yj, P, i).hw, P)
                            /\ SelectState(Select(X, xi, P, i).hw, P) =
                               SelectState(xi.hw, P)
                            /\ SelectState(Select(Y, yj, P, j).hw, P) =
                               SelectState(yj.hw, P)

\* A state after peripheral C was selected on a pin, with two more calls
\* possible and the pin's port holding the mixed prior pattern elsewhere
C19_Witness ==
    /\ last.op = "into_peripheralC" /\ nops + 2 <= MaxCalls
    /\ SelectCode(last.port, last.i) = <<1, 0>>
    /\ last.i \notin hw[last.port].psr
    /\ \E j \in ActivePins \ {last.i} : SelectCode(last.port, j) = <<0, 1>>

\* C20: every call on a token or handle of one port accesses that port's
\* registers only: every register of the other two ports is unchanged by it.
C20_PortsIndependent ==
    [][/\ \A Q \in Ports \ {last'.port} : hw'[Q] = hw[Q]
       /\ \A k \in 1..Len(acc') : acc'[k].port = last'.port]_vars

\* An erased handle of PIOB driven high: the registers of the two other
\* ports are as before the first call
C20_Witness ==
    /\ last.op = "set_high" /\ last.recv = "PXx" /\ last.port = "PIOB"
    /\ last.i \in hw["PIOB"].odsr
    /\ \A Q \in {"PIOA", "PIOC"} : \E k \in DOMAIN Prior : hw[Q] = ResetRegs(Prior[k])

\* A call is in flight on pin i of port PIOX
InFlightOn(PIOX, i) ==
    \E c \in Contexts : ctx[c].call.port = PIOX /\ ctx[c].call.i = i

\* C13: with calls from several contexts interleaved access by access, no
\* two calls in flight hold the same token, so no access of another call
\* falls between the load and the store of a modify on a select register;
\* no update is lost: the select code of every pin with no call in flight
\* is the code of the last selection completed on that pin.
C13_NoLostSelect ==
    /\ \A c, d \in Contexts : c # d => ctx[c].toks \cap ctx[d].toks = {}
    /\ \A a \in applied :
          (a.kind = "select" /\ ~InFlightOn(a.port, a.i)) =>
              SelectCode(a.port, a.i) = CodeOf(TargetOf(a.op))

\* One context is between the load and the store of ABCDSR2 of a selection
\* while the pin another context selected peripheral C on holds its code
C13_Witness ==
    \E c \in Contexts : \E a \in applied :
        /\ ctx[c].call.op = "into_peripheralB" /\ ctx[c].k = 4
        /\ a.by # c /\ a.op = "into_peripheralC"
        /\ a.port = ctx[c].call.port /\ a.i # ctx[c].call.i
        /\ SelectCode(a.port, a.i) = <<1, 0>>
        /\ hw[a.port].abcdsr2 = AllOnes \ {a.i}

\* C14: the drives borrow no token: an idle context can drive a free Output
\* handle whatever tokens the calls in flight hold.  Interleaved from several
\* contexts the drives lose nothing: the output level of every pin with no
\* call in flight is the level of the last drive completed on that pin.
C14_NoLostDrive ==
    /\ \A c \in Contexts : \A h \in handles :
          (/\ nops < MaxConcCalls /\ ctx[c].call.op = "none"
           /\ h.pin \in ConcPins /\ h.mode \in OutputModes /\ Free(h)) =>
              ENABLED BeginPXi(c, "set_low", h)
    /\ \A a \in applied :
          (a.kind = "drive" /\ ~InFlightOn(a.port, a.i)) =>
              Bit(hw[a.port].odsr, a.i) = (IF a.op = "set_high" THEN 1 ELSE 0)

\* Two contexts have driven two pins of one port, one high and one low,
\* against what the output data register held before
C14_Witness ==
    \E a, b \in applied :
        /\ a.kind = "drive" /\ b.kind = "drive"
        /\ a.by # b.by /\ a.port = b.port /\ a.i # b.i
        /\ a.op = "set_high" /\ b.op = "set_low"
        /\ a.i \in hw[a.port].odsr /\ b.i \notin hw[b.port].odsr
        /\ a.i % 2 = 0 /\ b.i % 2 = 1
        /\ hw[a.port].odsr \ {a.i, b.i} = OddBits \ {a.i, b.i}

====
